---- MODULE Spec2Model ----
(***************************************************************************)
(* Model of the dock-refine pipeline (GoMasatomo/dock-refine).             *)
(*                                                                         *)
(*   SpecParse : dockmodules/run_clustering.py  parse_cluster_log          *)
(*   SpecMerge : dockmodules/haddock_analysis.py                           *)
(*               parse_ener_and_edesolv_files                              *)
(*   Spec      : run_docking.py  docking_pipeline and the per-cluster      *)
(*               tasks it runs in a multiprocessing Pool                   *)
(*                                                                         *)
(* Text is modelled as a sequence of one-character strings, so that        *)
(* splitlines, strip, the header regular expression, int(), float() and    *)
(* re.findall are computed on characters as the code computes them.        *)
(***************************************************************************)
EXTENDS Integers, Sequences, FiniteSets, TLC

VARIABLES
    \* ---- parse_cluster_log (SpecParse)
    src_lines,      \* the log as it was produced: a sequence of line descriptions
    log_text,       \* the log as parse_cluster_log reads it: characters
    parse_pc,       \* "idle" | "called" | "returned"
    parse_result,   \* [status, rows] once returned
    \* ---- parse_ener_and_edesolv_files (SpecMerge)
    ener_file,      \* <cluster>_ener: Missing, or its lines, each a sequence of tokens
    edesolv_file,   \* <cluster>_Edesolv: likewise
    merge_pc,       \* "idle" | "called" | "returned"
    merge_result,   \* [status, frame, path] once returned
    \* ---- docking_pipeline and its Pool (Spec, SpecSelect)
    environ,        \* the names os.environ holds
    max_clusters,   \* the -c argument
    pc,             \* where docking_pipeline is
    error,          \* the exception docking_pipeline ended with, or "none"
    cluster_df,     \* the rows parse_cluster_log returned
    cluster_ids,    \* the ids handed to pool.starmap
    tasks,          \* per submitted task: [pc, pose, water, ret, exc]
    results,        \* what pool.starmap returned
    combined_df,    \* the concatenated frame
    writes,         \* every file or directory written: [by, path, busy]
    copied,         \* the cp commands of lines 188 and 191, in order: [src, dst]
    \* ---- ensure_pdb_end_statement (SpecEnd)
    pdb_given,      \* the receptor and ligand files as copied: characters
    pdb_text,       \* the two files as they are now
    end_pc,         \* "idle" | "copied" | "receptor_done" | "ligand_done" | "zdock"
    zdock_read,     \* the two files as mark_sur read them
    \* ---- get_interface_residues (SpecInterface)
    structure,      \* the two chains of the pose: residues and their atoms
    distance,       \* the threshold
    iface_pc,       \* "idle" | "called" | "returned"
    iface_result,   \* the dict returned: [A, B], two sequences of numbers
    \* ---- parse_cluster_score, get_representative_structure (SpecScore)
    score_file,     \* cluster_haddock-score.txt_best4: Missing, or its lines
    score_pc,       \* "idle" | "called" | "scored" | "represented" | "exited" | "raised"
    best,           \* [cluster, score]: self.best_cluster, self.best_score
    opened,         \* the files get_representative_structure opened, in order
    rep_result      \* what get_representative_structure returned

parse_vars == <<src_lines, log_text, parse_pc, parse_result>>

merge_vars == <<ener_file, edesolv_file, merge_pc, merge_result>>

pipe_vars == <<environ, max_clusters, pc, error, cluster_df, cluster_ids, tasks,
               results, combined_df, writes, copied>>

end_vars == <<pdb_given, pdb_text, end_pc, zdock_read>>

iface_vars == <<structure, distance, iface_pc, iface_result>>

score_vars == <<score_file, score_pc, best, opened, rep_result>>

vars == <<parse_vars, merge_vars, pipe_vars, end_vars, iface_vars, score_vars>>

----------------------------------------------------------------------------
(* Bounds of the model.                                                    *)

MaxLines == 3

MaxEnergyLines == 3

\* The largest magnitude of the -c argument tried.
MaxClustersArg == 3

\* The worker processes of the Pool (os.cpu_count() on the host).
NumWorkers == 2

\* The residues of a chain.
MaxResidues == 2

\* The lines of a structure file.
MaxPdbLines == 2

\* The lines of the score file.
MaxScoreLines == 3

----------------------------------------------------------------------------
(* Characters.                                                             *)

DigitChars == {"0", "1", "2", "3", "4", "5", "6", "7", "8", "9"}

SpaceChars == {" ", "\t"}

DigitDotChars == DigitChars \cup {"."}

DigitVal(c) ==
    CASE c = "0" -> 0 [] c = "1" -> 1 [] c = "2" -> 2 [] c = "3" -> 3
      [] c = "4" -> 4 [] c = "5" -> 5 [] c = "6" -> 6 [] c = "7" -> 7
      [] c = "8" -> 8 [] c = "9" -> 9

\* The first position j >= i of s whose character is not in class (Len(s)+1 if none):
\* what a greedy \s*, \d* or [\d.]* consumes from position i.
RECURSIVE SkipWhile(_, _, _)
SkipWhile(s, i, class) ==
    IF i > Len(s) \/ s[i] \notin class THEN i ELSE SkipWhile(s, i + 1, class)

\* s[i..j-1]
Slice(s, i, j) == SubSeq(s, i, j - 1)

\* str.splitlines(): lines are ended by "\n"; no empty last line after a final "\n".
RECURSIVE SplitFrom(_, _, _, _)
SplitFrom(s, i, cur, acc) ==
    IF i > Len(s) THEN (IF cur = <<>> THEN acc ELSE Append(acc, cur))
    ELSE IF s[i] = "\n" THEN SplitFrom(s, i + 1, <<>>, Append(acc, cur))
    ELSE SplitFrom(s, i + 1, Append(cur, s[i]), acc)

splitlines(s) == SplitFrom(s, 1, <<>>, <<>>)

\* The last position j <= i of s whose character is not whitespace (0 if none).
RECURSIVE LastNonSpace(_, _)
LastNonSpace(s, i) ==
    IF i = 0 \/ s[i] \notin SpaceChars THEN i ELSE LastNonSpace(s, i - 1)

\* str.strip()
strip(s) ==
    LET a == SkipWhile(s, 1, SpaceChars)
        b == LastNonSpace(s, Len(s))
    IN  IF a > b THEN <<>> ELSE SubSeq(s, a, b)

\* int(digits) for a non-empty run of decimal digits.
RECURSIVE int(_)
int(d) ==
    IF d = <<>> THEN 0 ELSE 10 * int(SubSeq(d, 1, Len(d) - 1)) + DigitVal(d[Len(d)])

\* re.findall(r"\d+", s): the maximal digit runs of s, left to right, as written.
RECURSIVE FindallFrom(_, _, _)
FindallFrom(s, i, acc) ==
    IF i > Len(s) THEN acc
    ELSE IF s[i] \in DigitChars
         THEN LET j == SkipWhile(s, i, DigitChars)
              IN  FindallFrom(s, j, Append(acc, Slice(s, i, j)))
         ELSE FindallFrom(s, i + 1, acc)

findall_digits(s) == FindallFrom(s, 1, <<>>)

\* ", ".join(tokens)
RECURSIVE join_comma(_)
join_comma(toks) ==
    IF toks = <<>> THEN <<>>
    ELSE IF Len(toks) = 1 THEN toks[1]
    ELSE toks[1] \o <<",", " ">> \o join_comma(Tail(toks))

----------------------------------------------------------------------------
(* float(): a metric is kept in thousandths; NaN and ValueError are kept   *)
(* apart from every number.                                                *)

NaN == [kind |-> "nan", milli |-> 0]

Real(m) == [kind |-> "real", milli |-> m]

ValueError == [kind |-> "ValueError", milli |-> 0]

CountDots(s) == Cardinality({i \in 1..Len(s) : s[i] = "."})

\* The first three decimals of a digit run, as thousandths.
FracMilli(d) ==
    LET p == SubSeq(d \o <<"0", "0", "0">>, 1, 3) IN int(p)

\* float(tok) for tok in [\d.]+ : one dot at most and a digit at least, else ValueError.
float(tok) ==
    IF CountDots(tok) > 1 \/ \A i \in 1..Len(tok) : tok[i] = "." THEN ValueError
    ELSE LET dot == SkipWhile(tok, 1, DigitChars)
         IN  Real(1000 * int(Slice(tok, 1, dot)) + FracMilli(SubSeq(tok, dot + 1, Len(tok))))

\* float(match.group(k)) if match.group(k) else np.nan
parse_metric_zero(tok) == IF tok = <<>> THEN Real(0) ELSE float(tok)

parse_metric(tok) == IF tok = <<>> THEN NaN ELSE float(tok)

----------------------------------------------------------------------------
\* The header pattern of parse_cluster_log,
\*     ^\s*(\d+)\s*\|\s*(\d+)\s*([\d.]*)\s*\|\s*(\d+)\s*([\d.]*)\s*\|
\* Every quantified class is followed by a character outside it, so the
\* greedy scan below finds the match whenever the pattern has one, and
\* finds the groups re.match reports.

NoMatch == [ok |-> FALSE, g1 |-> <<>>, g2 |-> <<>>, g3 |-> <<>>, g4 |-> <<>>,
            g5 |-> <<>>, end |-> 0]

IsBar(s, i) == i <= Len(s) /\ s[i] = "|"

match_header(line) ==
    LET a1 == SkipWhile(line, 1, SpaceChars)
        a2 == SkipWhile(line, a1, DigitChars)
        a3 == SkipWhile(line, a2, SpaceChars)
    IN  IF a2 = a1 \/ ~IsBar(line, a3) THEN NoMatch
        ELSE
        LET b1 == SkipWhile(line, a3 + 1, SpaceChars)
            b2 == SkipWhile(line, b1, DigitChars)
            b3 == SkipWhile(line, b2, SpaceChars)
            b4 == SkipWhile(line, b3, DigitDotChars)
            b5 == SkipWhile(line, b4, SpaceChars)
        IN  IF b2 = b1 \/ ~IsBar(line, b5) THEN NoMatch
            ELSE
            LET c1 == SkipWhile(line, b5 + 1, SpaceChars)
                c2 == SkipWhile(line, c1, DigitChars)
                c3 == SkipWhile(line, c2, SpaceChars)
                c4 == SkipWhile(line, c3, DigitDotChars)
                c5 == SkipWhile(line, c4, SpaceChars)
            IN  IF c2 = c1 \/ ~IsBar(line, c5) THEN NoMatch
                ELSE [ok |-> TRUE,
                      g1 |-> Slice(line, a1, a2),
                      g2 |-> Slice(line, b1, b2),
                      g3 |-> Slice(line, b3, b4),
                      g4 |-> Slice(line, c1, c2),
                      g5 |-> Slice(line, c3, c4),
                      end |-> c5]

----------------------------------------------------------------------------
(* parse_cluster_log.                                                      *)

Raised(exc) == [status |-> exc, rows |-> <<>>]

\* current_cluster["Members"].extend(re.findall(r"\d+", line))
extend_members_replacing(members, line) == findall_digits(line)

extend_members(members, line) == members \o findall_digits(line)

\* The dict built from a header match (run_clustering.py lines 127-141).
header_record(line, m) ==
    [ClusterID       |-> int(m.g1),
     NStructures     |-> int(m.g2),
     RMSD            |-> parse_metric(m.g3),
     MiddleStructure |-> int(m.g4),
     MiddleRMSD      |-> parse_metric(m.g5),
     Members         |-> findall_digits(SubSeq(line, m.end + 1, Len(line)))]

\* df = pd.DataFrame(clusters); df["Members"] = df["Members"].apply(", ".join):
\* a frame made from an empty list has no column "Members", and indexing it
\* raises KeyError.
build_frame(clusters) ==
    IF clusters = <<>> THEN Raised("KeyError")
    ELSE [status |-> "ok",
          rows   |-> [k \in 1..Len(clusters) |->
                         [clusters[k] EXCEPT !.Members = join_comma(@)]]]

\* The loop over log_text.splitlines(); cur is <<>> for current_cluster = None
\* and <<record>> otherwise.
RECURSIVE parse_lines(_, _, _, _)
parse_lines(lines, i, clusters, cur) ==
    IF i > Len(lines) THEN build_frame(clusters \o cur)
    ELSE
    LET line == strip(lines[i])
        m    == match_header(line)
    IN  IF line = <<>> THEN parse_lines(lines, i + 1, clusters, cur)
        ELSE IF m.ok
             THEN LET rec == header_record(line, m)
                  IN  IF rec.RMSD = ValueError \/ rec.MiddleRMSD = ValueError
                      THEN Raised("ValueError")
                      ELSE parse_lines(lines, i + 1, clusters \o cur, <<rec>>)
        ELSE IF cur # <<>>
             THEN parse_lines(lines, i + 1, clusters,
                      <<[cur[1] EXCEPT !.Members = extend_members(@, line)]>>)
        ELSE parse_lines(lines, i + 1, clusters, cur)

parse_cluster_log(text) == parse_lines(splitlines(text), 1, <<>>, <<>>)

----------------------------------------------------------------------------
(* Logs: each line is described by what the clustering tool wrote on it    *)
(* and rendered to the characters parse_cluster_log reads.                 *)

T1 == <<"1">>
T2 == <<"2">>
T3 == <<"3">>
T5 == <<"5">>
T01 == <<"0", "1">>
T07 == <<"0", "7">>
T12 == <<"1", "2">>
TReal == <<"0", ".", "2", "4", "4">>
TFrac == <<".", "1", "9", "6">>
TDot == <<".">>
TWord == <<"c", "l", ".">>

Sp == <<" ">>
Bar == <<"|">>

RECURSIVE join_space(_)
join_space(toks) ==
    IF toks = <<>> THEN <<>> ELSE Sp \o toks[1] \o join_space(Tail(toks))

HeaderLine(lead, id, n, rmsd, mid, mrmsd, members) ==
    [kind |-> "header", lead |-> lead, id |-> id, n |-> n, rmsd |-> rmsd,
     mid |-> mid, mrmsd |-> mrmsd, members |-> members]

\* A line of the tool that carries on the members column, as gmx cluster
\* writes it (bars, then numbers) or as bare numbers.
ContLine(bars, members) ==
    [kind |-> "cont", lead |-> bars, id |-> <<>>, n |-> <<>>, rmsd |-> <<>>,
     mid |-> <<>>, mrmsd |-> <<>>, members |-> members]

\* A line without any digit: blank, white, or the column titles.
TextLine(text) ==
    [kind |-> "text", lead |-> text, id |-> <<>>, n |-> <<>>, rmsd |-> <<>>,
     mid |-> <<>>, mrmsd |-> <<>>, members |-> <<>>]

Render(l) ==
    IF l.kind = "header"
    THEN l.lead \o l.id \o Sp \o Bar \o Sp \o l.n
         \o (IF l.rmsd = <<>> THEN <<" ", " ">> ELSE Sp \o l.rmsd)
         \o Sp \o Bar \o Sp \o l.mid
         \o (IF l.mrmsd = <<>> THEN <<" ", " ">> ELSE Sp \o l.mrmsd)
         \o Sp \o Bar \o join_space(l.members)
    ELSE l.lead \o join_space(l.members)

RECURSIVE RenderLog(_)
RenderLog(ls) ==
    IF ls = <<>> THEN <<>>
    ELSE Render(ls[1]) \o <<"\n">> \o RenderLog(Tail(ls))

LinePool ==
    { HeaderLine(<<" ", " ">>, T1, T2, TReal, T1, TFrac, <<T1, T3>>),
      HeaderLine(<<>>, T2, T1, <<>>, T5, <<>>, <<T5>>),
      HeaderLine(<<>>, T01, T3, <<>>, T2, TFrac, <<>>),
      HeaderLine(<<>>, T12, T2, TReal, T07, <<>>, <<T07, T2>>),
      HeaderLine(<<>>, T3, T1, TDot, T3, <<>>, <<T3>>),
      ContLine(<<" ", "|", " ", "|", " ", "|">>, <<T5, T2, T07>>),
      ContLine(<<>>, <<T12, T1>>),
      TextLine(<<>>),
      TextLine(<<" ", "\t">>),
      TextLine(TWord \o Sp \o Bar) }

RECURSIVE SeqsUpTo(_, _)
SeqsUpTo(S, n) ==
    IF n = 0 THEN {<<>>}
    ELSE LET shorter == SeqsUpTo(S, n - 1)
         IN  shorter \cup {Append(q, x) : q \in {r \in shorter : Len(r) = n - 1}, x \in S}

Logs == SeqsUpTo(LinePool, MaxLines)

----------------------------------------------------------------------------
(* Energy tables (haddock_analysis.py).  A file is Missing or a sequence   *)
(* of lines; a line is the sequence of tokens line.split() gives; a token  *)
(* is a word or a number in thousandths.                                   *)

Missing == <<<<[kind |-> "missing", s |-> "", milli |-> 0]>>>>

Word(w) == [kind |-> "str", s |-> w, milli |-> 0]

Num(m) == [kind |-> "num", s |-> "", milli |-> m]

None == [kind |-> "none", s |-> "", milli |-> 0]

\* The words of the pool that begin with "#".
HashWords == {"#struc", "#"}

ener_columns ==
    <<"#struc", "Einter", "Enb", "Evdw+0.1Eelec", "Evdw", "Eelec", "Eair",
      "Ecdih", "Ecoup", "Esani", "Evean", "Edani">>

edesolv_columns == <<"#struc", "Edesolv">>

\* pd.DataFrame(): no columns, no rows.
EmptyFrame == [cols |-> <<>>, rows |-> <<>>]

\* DataFrame.empty
frame_empty(df) == df.cols = <<>> \/ df.rows = <<>>

\* line.startswith("#") or not line, for a non-blank line's tokens
is_skipped(line) == line = <<>> \/ (line[1].kind = "str" /\ line[1].s \in HashWords)

\* pd.to_numeric(value, errors="coerce")
to_numeric(tok) == IF tok.kind = "num" THEN Real(tok.milli) ELSE NaN

Max(S) == CHOOSE x \in S : \A y \in S : y <= x

ColIndex(columns, c) == CHOOSE i \in 1..Len(columns) : columns[i] = c

\* parse_file: the data rows of one file as a frame.  pd.DataFrame(data,
\* columns=columns) pads short rows with None and raises ValueError when the
\* longest row has not len(columns) tokens; a missing file gives pd.DataFrame().
parse_file(file, columns) ==
    IF file = Missing THEN [status |-> "ok", frame |-> EmptyFrame]
    ELSE
    LET data  == SelectSeq(file, LAMBDA l : ~is_skipped(l))
        width == Max({Len(data[i]) : i \in 1..Len(data)} \cup {0})
        cell(row, c) ==
            LET i   == ColIndex(columns, c)
                tok == IF i <= Len(row) THEN row[i] ELSE None
            IN  IF i = 1 THEN tok ELSE to_numeric(tok)
    IN  IF data # <<>> /\ width # Len(columns)
        THEN [status |-> "ValueError", frame |-> EmptyFrame]
        ELSE [status |-> "ok",
              frame  |-> [cols |-> columns,
                          rows |-> [k \in 1..Len(data) |->
                                      [c \in {columns[i] : i \in 1..Len(columns)}
                                          |-> cell(data[k], c)]]]]

\* The rows of right whose key is that of row l, in right's order, each joined to l.
RECURSIVE matches_of(_, _, _)
matches_of(l, right, j) ==
    IF j > Len(right) THEN <<>>
    ELSE (IF right[j]["#struc"] = l["#struc"] THEN <<right[j] @@ l>> ELSE <<>>)
         \o matches_of(l, right, j + 1)

RECURSIVE merge_rows(_, _, _)
merge_rows(left, right, i) ==
    IF i > Len(left) THEN <<>>
    ELSE matches_of(left[i], right, 1) \o merge_rows(left, right, i + 1)

\* The same join driven by the other table: the rows come in right's order.
merge_inner_right_order(left, right) ==
    [cols |-> left.cols \o Tail(right.cols),
     rows |-> merge_rows(right.rows, left.rows, 1)]

\* pd.merge(ener_df, edesolv_df, on="#struc", how="inner"): the rows whose key
\* is in both frames, in the order of the left keys.
merge_inner(left, right) ==
    [cols |-> left.cols \o Tail(right.cols),
     rows |-> merge_rows(left.rows, right.rows, 1)]

PathNone == <<>>

\* os.path.join(self.directory, merged_df.iloc[0]["#struc"])
structure_path(directory, struc) == directory \o <<[base |-> struc, arg |-> <<>>]>>

\* parse_ener_and_edesolv_files, for the analysis object of `directory`:
\* the merged frame, and representative_structure_path as it leaves it.
parse_ener_and_edesolv_files(directory, ener, edesolv) ==
    LET e == parse_file(ener, ener_columns)
        d == parse_file(edesolv, edesolv_columns)
    IN  IF e.status # "ok" THEN [status |-> e.status, frame |-> EmptyFrame, path |-> PathNone]
        ELSE IF d.status # "ok"
             THEN [status |-> d.status, frame |-> EmptyFrame, path |-> PathNone]
        ELSE IF ~frame_empty(e.frame) /\ ~frame_empty(d.frame)
             THEN LET merged == merge_inner(e.frame, d.frame)
                  IN  [status |-> "ok", frame |-> merged,
                       path |-> IF ~frame_empty(merged)
                                THEN structure_path(directory, merged.rows[1]["#struc"].s)
                                ELSE PathNone]
        ELSE [status |-> "ok", frame |-> EmptyFrame, path |-> PathNone]

\* The lines the analysis tool writes.
EnerLine(struc, evdw, eelec) ==
    <<Word(struc), Num(0), Num(0), Num(0), Num(evdw), Num(eelec), Num(0),
      Num(0), Num(0), Num(0), Num(0), Num(0)>>

EdesolvLine(struc, edesolv) == <<Word(struc), Num(edesolv)>>

EnerLinePool ==
    { EnerLine("s1", -10000, -5000), EnerLine("s2", -8500, -1000),
      EnerLine("s3", -7000, 3000),
      [i \in 1..12 |-> Word(ener_columns[i])],
      <<Word("s2"), Word("x")>> }

EdesolvLinePool ==
    { EdesolvLine("s2", 2000), EdesolvLine("s3", -1500), EdesolvLine("s4", 500),
      <<Word("#struc"), Word("Edesolv")>> }

EnerFiles == {Missing} \cup SeqsUpTo(EnerLinePool, MaxEnergyLines)

EdesolvFiles == {Missing} \cup SeqsUpTo(EdesolvLinePool, MaxEnergyLines)

WaterDir == <<[base |-> "water", arg |-> <<>>]>>

----------------------------------------------------------------------------
(* run_docking.py: names and paths.  A path is a sequence of components    *)
(* below the output directory; a component is a fixed name, or a name made *)
(* by an f-string from a fixed part and the text put into it.              *)

Name(n) == [base |-> n, arg |-> <<>>]

Fmt(b, text) == [base |-> b, arg |-> text]

DigitChar(d) ==
    CASE d = 0 -> "0" [] d = 1 -> "1" [] d = 2 -> "2" [] d = 3 -> "3"
      [] d = 4 -> "4" [] d = 5 -> "5" [] d = 6 -> "6" [] d = 7 -> "7"
      [] d = 8 -> "8" [] d = 9 -> "9"

\* str(n) for n >= 0
RECURSIVE str(_)
str(n) == IF n < 10 THEN <<DigitChar(n)>> ELSE str(n \div 10) \o <<DigitChar(n % 10)>>

num_preds == 100

\* f"complex.{i}.pdb"
complex_pdb(text) == Fmt("complex.pdb", text)

DockingDir == <<Name("docking")>>

\* The poses create.pl extracts, as line 163 names them.
pdb_files == {complex_pdb(str(i)) : i \in 1..num_preds}

\* One directory for every task, whatever its cluster.
cluster_dir_shared(cluster_id) == Fmt("Pos", <<>>)

\* cluster_dir = f"Pos{cluster_id}"
cluster_dir(cluster_id) == Fmt("Pos", str(cluster_id))

ReceptorName == Name("receptor.pdb")

LigandName == Name("ligand.pdb")

\* analysis_dir = os.path.join(cluster_dir, "run1", "structures", "it1", "water")
analysis_dir(cluster_id) ==
    DockingDir \o <<cluster_dir(cluster_id), Name("run1"), Name("structures"),
                    Name("it1"), Name("water")>>

\* os.path.basename(path)
basename(path) == path[Len(path)]

RequiredEnv == {"ZDOCK", "HADDOCK", "GROMACS"}

AllEnv == RequiredEnv \cup {"HADDOCKTOOLS", "HADDOCK_RESTRAINTS"}

Environs == {AllEnv, AllEnv \ {"GROMACS"}, AllEnv \ {"HADDOCKTOOLS"},
             AllEnv \ {"HADDOCK_RESTRAINTS"}}

\* The token after the last comma instead.
last_member(members) ==
    LET commas == {i \in 1..Len(members) : members[i] = ","}
        from   == IF commas = {} THEN 1 ELSE Max(commas) + 1
    IN  strip(Slice(members, from, Len(members) + 1))

\* str(members).split(',')[0].strip()
first_member(members) ==
    LET comma == CHOOSE i \in 1..(Len(members) + 1) :
                     /\ i = Len(members) + 1 \/ members[i] = ","
                     /\ \A j \in 1..(i - 1) : members[j] # ","
    IN  strip(Slice(members, 1, comma))

\* cluster_df['Cluster ID'].unique().tolist()
RECURSIVE unique(_)
unique(ids) ==
    IF ids = <<>> THEN <<>>
    ELSE LET before == unique(SubSeq(ids, 1, Len(ids) - 1))
             last   == ids[Len(ids)]
         IN  IF \E i \in 1..Len(before) : before[i] = last THEN before
             ELSE Append(before, last)

\* Python's list[:n]
slice_to(l, n) ==
    IF n >= 0 THEN SubSeq(l, 1, IF n < Len(l) THEN n ELSE Len(l))
    ELSE SubSeq(l, 1, Len(l) + n)

\* list[-n:] for n > 0
slice_last(l, n) == SubSeq(l, Len(l) - n + 1, Len(l))

\* The last max_clusters ids instead of the first.
select_cluster_ids_last(df, maxc) ==
    LET ids == unique([k \in 1..Len(df) |-> df[k].ClusterID])
    IN  IF Len(ids) > maxc /\ maxc > 0 THEN slice_last(ids, maxc)
        ELSE IF Len(ids) > maxc THEN slice_to(ids, maxc) ELSE ids

\* run_docking.py lines 169-171
select_cluster_ids(df, maxc) ==
    LET ids == unique([k \in 1..Len(df) |-> df[k].ClusterID])
    IN  IF Len(ids) > maxc THEN slice_to(ids, maxc) ELSE ids

----------------------------------------------------------------------------
(* The per-cluster task, run_haddock_docking_for_cluster, and what the     *)
(* external tools leave for it.                                            *)

\* get_representative_structure: merged_df.iloc[[0]], or pd.DataFrame().
get_representative_structure(directory, ener, edesolv) ==
    LET r == parse_ener_and_edesolv_files(directory, ener, edesolv)
    IN  IF r.status = "ok" /\ ~frame_empty(r.frame)
        THEN [r EXCEPT !.frame.rows = <<r.frame.rows[1]>>]
        ELSE [r EXCEPT !.frame = EmptyFrame]

\* What ana_clusters.csh leaves in the analysis directory: the score file
\* (or not) and the two energy files of the best cluster.
ToolOutputs ==
    { [score |-> TRUE,
       ener |-> <<EnerLine("s2", -8500, -1000), EnerLine("s3", -7000, 3000)>>,
       edesolv |-> <<EdesolvLine("s3", -1500), EdesolvLine("s2", 2500)>>],
      [score |-> TRUE,
       ener |-> <<EnerLine("s1", -10000, -5000)>>,
       edesolv |-> <<EdesolvLine("s4", 500), EdesolvLine("s1", 2000)>>],
      [score |-> TRUE, ener |-> Missing, edesolv |-> <<EdesolvLine("s2", 2000)>>],
      [score |-> TRUE, ener |-> <<<<Word("s2"), Word("x")>>>>,
       edesolv |-> <<EdesolvLine("s2", 2000)>>],
      [score |-> FALSE, ener |-> Missing, edesolv |-> Missing] }

NoRet == [frame |-> EmptyFrame, path |-> PathNone]

NoPose == Name("")

Pending == [pc |-> "pending", pose |-> NoPose, water |-> FALSE, ret |-> NoRet,
            exc |-> "none"]

Running == {"interface", "staged", "generated", "haddock_done"}

Unfinished == Running \cup {"pending"}

TaskIdx == 1..Len(tasks)

\* The tasks that have not come back, for good or bad.
Busy == Cardinality({i \in TaskIdx : tasks[i].pc \in Unfinished})

Wr(by, path) == [by |-> by, path |-> path, busy |-> Busy]

TaskDir(i) == DockingDir \o <<cluster_dir(cluster_ids[i])>>

TaskRaise(i, exc) == tasks' = [tasks EXCEPT ![i].pc = "raised", ![i].exc = exc]

TaskGoto(i, to) == tasks' = [tasks EXCEPT ![i].pc = to]

\* A worker takes the next task of the queue (lines 47-52): the row of the
\* cluster (.values[0] of no row raises IndexError), its first member, the
\* pose file, the interface residues.
TaskStart(i) ==
    /\ pc = "starmap"
    /\ tasks[i].pc = "pending"
    /\ \A j \in 1..(i - 1) : tasks[j].pc # "pending"
    /\ Cardinality({j \in TaskIdx : tasks[j].pc \in Running}) < NumWorkers
    /\ LET found == {k \in 1..Len(cluster_df) : cluster_df[k].ClusterID = cluster_ids[i]}
           row == cluster_df[CHOOSE k \in found : \A j \in found : k <= j]
           pdb_file == complex_pdb(first_member(row.Members))
       IN  IF found = {} THEN TaskRaise(i, "IndexError")
           ELSE IF pdb_file \in pdb_files
           THEN tasks' = [tasks EXCEPT ![i].pc = "interface", ![i].pose = pdb_file]
           ELSE tasks' = [tasks EXCEPT ![i].pc = "raised", ![i].pose = pdb_file,
                                       ![i].exc = "FileNotFoundError"]
    /\ UNCHANGED <<copied, environ, max_clusters, pc, error, cluster_df, cluster_ids,
                   results, combined_df, writes, parse_vars, merge_vars, end_vars, iface_vars, score_vars>>

\* lines 55-64: the task's directory and its copies of the two inputs
TaskStage(i) ==
    /\ pc = "starmap"
    /\ tasks[i].pc = "interface"
    /\ writes' = writes \cup {Wr(i, TaskDir(i)),
                              Wr(i, TaskDir(i) \o <<ReceptorName>>),
                              Wr(i, TaskDir(i) \o <<LigandName>>)}
    /\ TaskGoto(i, "staged")
    /\ UNCHANGED <<copied, environ, max_clusters, pc, error, cluster_df, cluster_ids,
                   results, combined_df, parse_vars, merge_vars, end_vars, iface_vars, score_vars>>

\* lines 84-86, HaddockInputGenerator.main: output.json, restraints.tbl (its
\* tool cannot be started when HADDOCK_RESTRAINTS is not set), run.param
TaskGenerateInput(i) ==
    /\ pc = "starmap"
    /\ tasks[i].pc = "staged"
    /\ IF "HADDOCK_RESTRAINTS" \in environ
       THEN /\ writes' = writes \cup {Wr(i, TaskDir(i) \o <<Name("output.json")>>),
                                      Wr(i, TaskDir(i) \o <<Name("restraints.tbl")>>),
                                      Wr(i, TaskDir(i) \o <<Name("run.param")>>)}
            /\ TaskGoto(i, "generated")
       ELSE /\ writes' = writes \cup {Wr(i, TaskDir(i) \o <<Name("output.json")>>),
                                      Wr(i, TaskDir(i) \o <<Name("restraints.tbl")>>)}
            /\ TaskRaise(i, "FileNotFoundError")
    /\ UNCHANGED <<copied, environ, max_clusters, pc, error, cluster_df, cluster_ids,
                   results, combined_df, parse_vars, merge_vars, end_vars, iface_vars, score_vars>>

\* line 89, run_haddock: HADDOCK sets up run1 in the task's directory and is
\* run again inside it; it may leave no run1, or no water directory.
TaskRunHaddock(i) ==
    /\ pc = "starmap"
    /\ tasks[i].pc = "generated"
    /\ \/ /\ TaskRaise(i, "FileNotFoundError")
          /\ UNCHANGED writes
       \/ /\ writes' = writes \cup {Wr(i, TaskDir(i) \o <<Name("run1")>>)}
          /\ tasks' = [tasks EXCEPT ![i].pc = "haddock_done", ![i].water = FALSE]
       \/ /\ writes' = writes \cup {Wr(i, TaskDir(i) \o <<Name("run1")>>),
                                    Wr(i, analysis_dir(cluster_ids[i]))}
          /\ tasks' = [tasks EXCEPT ![i].pc = "haddock_done", ![i].water = TRUE]
    /\ UNCHANGED <<copied, environ, max_clusters, pc, error, cluster_df, cluster_ids,
                   results, combined_df, parse_vars, merge_vars, end_vars, iface_vars, score_vars>>

\* lines 92-107.  Without the directory, or after an exception caught at
\* line 102, representative_structure_path was never assigned and the return
\* raises UnboundLocalError.  parse_cluster_score calls exit(1) when the score
\* file is missing: SystemExit ends the worker and the task never comes back.
TaskAnalyse(i) ==
    /\ pc = "starmap"
    /\ tasks[i].pc = "haddock_done"
    /\ IF ~tasks[i].water
       THEN /\ TaskRaise(i, "UnboundLocalError")
            /\ UNCHANGED writes
       ELSE IF "HADDOCKTOOLS" \notin environ
       THEN /\ TaskRaise(i, "UnboundLocalError")
            /\ UNCHANGED writes
       ELSE \E out \in ToolOutputs :
            LET dir == analysis_dir(cluster_ids[i])
                r   == get_representative_structure(dir, out.ener, out.edesolv)
            IN  /\ writes' = writes \cup
                       {Wr(i, dir \o <<Name(f)>>) :
                           f \in (IF out.score THEN {"cluster_haddock-score.txt_best4"}
                                  ELSE {})
                              \cup (IF out.ener # Missing THEN {"_ener"} ELSE {})
                              \cup (IF out.edesolv # Missing THEN {"_Edesolv"} ELSE {})}
                /\ IF ~out.score THEN TaskGoto(i, "exited")
                   ELSE IF r.status # "ok" THEN TaskRaise(i, "UnboundLocalError")
                   ELSE tasks' = [tasks EXCEPT ![i].pc = "returned",
                                       ![i].ret = [frame |-> r.frame, path |-> r.path]]
    /\ UNCHANGED <<copied, environ, max_clusters, pc, error, cluster_df, cluster_ids,
                   results, combined_df, parse_vars, merge_vars, end_vars, iface_vars, score_vars>>

----------------------------------------------------------------------------
(* docking_pipeline.                                                       *)

\* The logs gmx cluster may leave for the pipeline.
PipeLogs ==
    { <<>>,
      <<HeaderLine(<<>>, T1, T2, TReal, T1, TFrac, <<T1, T3>>),
        HeaderLine(<<>>, T2, T1, <<>>, T5, <<>>, <<T5>>),
        HeaderLine(<<>>, T12, T2, TReal, T07, <<>>, <<T07, T2>>)>>,
      <<TextLine(TWord \o Sp \o Bar),
        HeaderLine(<<>>, T2, T1, <<>>, T5, <<>>, <<>>),
        ContLine(<<" ", "|", " ", "|", " ", "|">>, <<T5, T2, T07>>),
        HeaderLine(<<>>, T01, T3, <<>>, T2, TFrac, <<T3>>),
        HeaderLine(<<>>, T1, T2, TReal, T1, TFrac, <<T1, T3>>)>>,
      <<HeaderLine(<<>>, T3, T1, <<>>, T3, <<>>, <<T3>>)>> }

Raise(exc) ==
    /\ pc' = "raised"
    /\ error' = exc

\* Some task has come back.
some_task_returned == \E i \in TaskIdx : tasks[i].pc = "returned"

\* pool.starmap blocks until every task has come back.
all_tasks_returned == \A i \in TaskIdx : tasks[i].pc = "returned"

\* Every task has come back or raised, and one at least raised.
a_task_raised ==
    /\ \A i \in TaskIdx : tasks[i].pc \in {"returned", "raised"}
    /\ \E i \in TaskIdx : tasks[i].pc = "raised"

\* lines 118-123
CheckEnvironment ==
    /\ pc = "start"
    /\ IF RequiredEnv \subseteq environ
       THEN pc' = "setup" /\ UNCHANGED error
       ELSE Raise("EnvironmentError")
    /\ UNCHANGED <<copied, environ, max_clusters, cluster_df, cluster_ids, tasks, results,
                   combined_df, writes, parse_vars, merge_vars, end_vars, iface_vars, score_vars>>

\* lines 126-147: the output and docking directories, the copies of the two
\* inputs and their END statements
Setup ==
    /\ pc = "setup"
    /\ writes' = writes \cup {Wr(0, <<>>), Wr(0, DockingDir),
                              Wr(0, DockingDir \o <<ReceptorName>>),
                              Wr(0, DockingDir \o <<LigandName>>)}
    /\ pc' = "zdock"
    /\ UNCHANGED <<copied, environ, max_clusters, error, cluster_df, cluster_ids, tasks,
                   results, combined_df, parse_vars, merge_vars, end_vars, iface_vars, score_vars>>

\* lines 150-161: mark_sur, zdock, create.pl
RunZdock ==
    /\ pc = "zdock"
    /\ writes' = writes
           \cup {Wr(0, DockingDir \o <<Name(f)>>) :
                    f \in {"uniCHARMM", "receptor_m.pdb", "ligand_m.pdb", "zdock.out",
                           "create_lig"}}
           \cup {Wr(0, DockingDir \o <<f>>) : f \in pdb_files}
    /\ pc' = "cluster"
    /\ UNCHANGED <<copied, environ, max_clusters, error, cluster_df, cluster_ids, tasks,
                   results, combined_df, parse_vars, merge_vars, end_vars, iface_vars, score_vars>>

\* line 165, cluster_pdb_files: gmx cluster fails (RuntimeError), or leaves
\* one of `logs`, which parse_cluster_log reads
ClusterOf(logs) ==
    /\ pc = "cluster"
    /\ writes' = writes \cup {Wr(0, DockingDir \o <<Name("cluster_combined.pdb")>>)}
    /\ \/ /\ Raise("RuntimeError")
          /\ UNCHANGED cluster_df
       \/ \E log \in logs :
              LET r == parse_cluster_log(RenderLog(log))
              IN  IF r.status = "ok"
                  THEN /\ cluster_df' = r.rows
                       /\ pc' = "select"
                       /\ UNCHANGED error
                  ELSE /\ Raise(r.status)
                       /\ UNCHANGED cluster_df
    /\ UNCHANGED <<copied, environ, max_clusters, cluster_ids, tasks, results, combined_df,
                   parse_vars, merge_vars, end_vars, iface_vars, score_vars>>

Cluster == ClusterOf(PipeLogs)

\* lines 169-175: the ids are chosen and handed to pool.starmap
SelectAndSubmit ==
    /\ pc = "select"
    /\ cluster_ids' = select_cluster_ids(cluster_df, max_clusters)
    /\ tasks' = [i \in 1..Len(cluster_ids') |-> Pending]
    /\ pc' = "starmap"
    /\ UNCHANGED <<copied, environ, max_clusters, error, cluster_df, results, combined_df,
                   writes, parse_vars, merge_vars, end_vars, iface_vars, score_vars>>

\* line 175: starmap returns the tasks' values, in the order of the ids
StarmapReturn ==
    /\ pc = "starmap"
    /\ all_tasks_returned
    /\ results' = [i \in TaskIdx |-> tasks[i].ret]
    /\ pc' = "concat"
    /\ UNCHANGED <<copied, environ, max_clusters, error, cluster_df, cluster_ids, tasks,
                   combined_df, writes, parse_vars, merge_vars, end_vars, iface_vars, score_vars>>

\* line 175: starmap raises again what a task raised; nothing is returned
StarmapRaise ==
    /\ pc = "starmap"
    /\ a_task_raised
    /\ Raise(tasks[CHOOSE i \in TaskIdx : tasks[i].pc = "raised"].exc)
    /\ UNCHANGED <<copied, environ, max_clusters, cluster_df, cluster_ids, tasks, results,
                   combined_df, writes, parse_vars, merge_vars, end_vars, iface_vars, score_vars>>

\* df.assign(**{"#struc": path})
assign_struc(ret) ==
    [cols |-> IF ret.frame.cols = <<>> THEN <<"#struc">> ELSE ret.frame.cols,
     rows |-> [k \in 1..Len(ret.frame.rows) |->
                  [ret.frame.rows[k] EXCEPT !["#struc"] = ret.path]]]

RECURSIVE concat_rows(_)
concat_rows(frames) ==
    IF frames = <<>> THEN <<>> ELSE frames[1].rows \o concat_rows(Tail(frames))

\* The columns of pd.concat: those of the frames, first come first.
RECURSIVE concat_cols(_)
concat_cols(frames) ==
    IF frames = <<>> THEN <<>>
    ELSE LET rest == concat_cols(Tail(frames))
         IN  frames[1].cols
             \o SelectSeq(rest, LAMBDA c : \A i \in 1..Len(frames[1].cols) :
                                               frames[1].cols[i] # c)

\* line 178: pd.concat raises ValueError when there is nothing to concatenate
Concat ==
    /\ pc = "concat"
    /\ IF results = <<>>
       THEN /\ Raise("ValueError")
            /\ UNCHANGED combined_df
       ELSE LET frames == [i \in 1..Len(results) |-> assign_struc(results[i])]
            IN  /\ combined_df' = [cols |-> concat_cols(frames),
                                   rows |-> concat_rows(frames)]
                /\ pc' = "score"
                /\ UNCHANGED error
    /\ UNCHANGED <<copied, environ, max_clusters, cluster_df, cluster_ids, tasks, results,
                   writes, parse_vars, merge_vars, end_vars, iface_vars, score_vars>>

HasCol(df, c) == \E i \in 1..Len(df.cols) : df.cols[i] = c

\* a + b on floats
add(a, b) == IF a.kind = "real" /\ b.kind = "real" THEN Real(a.milli + b.milli) ELSE NaN

\* The score of row k with the desolvation term of the first row.
row_score_first_edesolv(df, k) ==
    add(add(df.rows[k]["Evdw"], df.rows[k]["Eelec"]), df.rows[1]["Edesolv"])

\* combined_df["Evdw"] + combined_df["Eelec"] + combined_df["Edesolv"], at row k
row_score(df, k) ==
    add(add(df.rows[k]["Evdw"], df.rows[k]["Eelec"]), df.rows[k]["Edesolv"])

\* line 181: a frame without the energy columns raises KeyError
Score ==
    /\ pc = "score"
    /\ IF HasCol(combined_df, "Evdw") /\ HasCol(combined_df, "Eelec")
          /\ HasCol(combined_df, "Edesolv")
       THEN /\ combined_df' =
                   [cols |-> Append(combined_df.cols, "score"),
                    rows |-> [k \in 1..Len(combined_df.rows) |->
                        combined_df.rows[k] @@ ("score" :> row_score(combined_df, k))]]
            /\ pc' = "copy"
            /\ UNCHANGED error
       ELSE /\ Raise("KeyError")
            /\ UNCHANGED combined_df
    /\ UNCHANGED <<copied, environ, max_clusters, cluster_df, cluster_ids, tasks, results,
                   writes, parse_vars, merge_vars, end_vars, iface_vars, score_vars>>

\* combined_df["#struc"].unique()
struc_unique(df) == unique([k \in 1..Len(df.rows) |-> df.rows[k]["#struc"]])

\* The two cp commands of one path (lines 186-191).
cp_commands(path) ==
    <<[src |-> path, dst |-> DockingDir \o <<Name("copied_files"), basename(path)>>],
      [src |-> path, dst |-> <<basename(path)>>]>>

\* The same commands issued twice over.
RECURSIVE copy_commands_repeated(_, _)
copy_commands_repeated(paths, existing) ==
    IF paths = <<>> THEN <<>>
    ELSE (IF paths[1] \in existing THEN cp_commands(paths[1]) \o cp_commands(paths[1])
          ELSE <<>>)
         \o copy_commands_repeated(Tail(paths), existing)

\* lines 184-191: the cp commands of the loop, for the paths that exist
RECURSIVE copy_commands(_, _)
copy_commands(paths, existing) ==
    IF paths = <<>> THEN <<>>
    ELSE (IF paths[1] \in existing THEN cp_commands(paths[1]) ELSE <<>>)
         \o copy_commands(Tail(paths), existing)

\* lines 184-191: every distinct path that exists is copied to copied_files
\* and to the directory above
CopyFiles ==
    /\ pc = "copy"
    /\ \E existing \in SUBSET {combined_df.rows[k]["#struc"] :
                                  k \in 1..Len(combined_df.rows)} :
           LET cmds == copy_commands(struc_unique(combined_df), existing)
           IN  /\ copied' = cmds
               /\ writes' = writes
                      \cup {Wr(0, DockingDir \o <<Name("copied_files")>>) :
                               k \in 1..Len(cmds)}
                      \cup {Wr(0, cmds[k].dst) : k \in 1..Len(cmds)}
    /\ pc' = "csv"
    /\ UNCHANGED <<environ, max_clusters, error, cluster_df, cluster_ids, tasks,
                   results, combined_df, parse_vars, merge_vars, end_vars, iface_vars, score_vars>>

\* line 194
WriteCsv ==
    /\ pc = "csv"
    /\ writes' = writes \cup {Wr(0, <<Name("combined_results.csv")>>)}
    /\ pc' = "done"
    /\ UNCHANGED <<copied, environ, max_clusters, error, cluster_df, cluster_ids, tasks,
                   results, combined_df, parse_vars, merge_vars, end_vars, iface_vars, score_vars>>

----------------------------------------------------------------------------
(* dockmodules/get_interface_residue.py.  A chain is the sequence of its   *)
(* residues in file order; a residue has its number, its insertion code    *)
(* (the two make its identity in the chain) and its atoms' coordinates.    *)

Residue(n, icode, atoms) == [resseq |-> n, icode |-> icode, atoms |-> atoms]

\* The square of atom_a - atom_b, the distance of the two atoms.
dist2(a, b) ==
    (a[1] - b[1]) * (a[1] - b[1]) + (a[2] - b[2]) * (a[2] - b[2])
        + (a[3] - b[3]) * (a[3] - b[3])

\* The two atoms are at the distance d exactly.
within_exactly(a, b, d) == d >= 0 /\ dist2(a, b) = d * d

\* atom_a - atom_b <= distance (line 85); for d >= 0 the root of dist2 is at
\* most d when dist2 is at most d * d.
within(a, b, d) == d >= 0 /\ dist2(a, b) <= d * d

\* lines 83-91: the atom pairs of one residue pair, up to the first one that
\* is near enough; TRUE when the loops were left by break.
RECURSIVE scan_atoms(_, _, _, _, _)
scan_atoms(res_a, res_b, i, j, d) ==
    IF i > Len(res_a.atoms) THEN FALSE
    ELSE IF j > Len(res_b.atoms) THEN scan_atoms(res_a, res_b, i + 1, 1, d)
    ELSE IF within(res_a.atoms[i], res_b.atoms[j], d) THEN TRUE
    ELSE scan_atoms(res_a, res_b, i, j + 1, d)

\* The residue loops leaving res_a at its first partner.
RECURSIVE scan_residues_first_partner(_, _, _, _, _, _)
scan_residues_first_partner(residues_a, residues_b, i, j, d, found) ==
    IF i > Len(residues_a) THEN found
    ELSE IF j > Len(residues_b)
         THEN scan_residues_first_partner(residues_a, residues_b, i + 1, 1, d, found)
    ELSE IF scan_atoms(residues_a[i], residues_b[j], 1, 1, d)
         THEN scan_residues_first_partner(residues_a, residues_b, i + 1, 1, d,
                  [a |-> found.a \cup {residues_a[i]},
                   b |-> found.b \cup {residues_b[j]}])
    ELSE scan_residues_first_partner(residues_a, residues_b, i, j + 1, d, found)

\* lines 80-91: every residue pair; interface_a and interface_b as they grow
RECURSIVE scan_residues(_, _, _, _, _, _)
scan_residues(residues_a, residues_b, i, j, d, found) ==
    IF i > Len(residues_a) THEN found
    ELSE IF j > Len(residues_b)
         THEN scan_residues(residues_a, residues_b, i + 1, 1, d, found)
    ELSE scan_residues(residues_a, residues_b, i, j + 1, d,
             IF scan_atoms(residues_a[i], residues_b[j], 1, 1, d)
             THEN [a |-> found.a \cup {residues_a[i]},
                   b |-> found.b \cup {residues_b[j]}]
             ELSE found)

\* [res.get_id()[1] for res in sorted(interface, key=lambda x: x.get_id()[1])]
RECURSIVE sorted_numbers(_)
sorted_numbers(interface) ==
    IF interface = {} THEN <<>>
    ELSE LET least == CHOOSE r \in interface :
                          \A q \in interface : r.resseq <= q.resseq
         IN  <<least.resseq>> \o sorted_numbers(interface \ {least})

get_interface_residues(st, d) ==
    LET found == scan_residues(st.A, st.B, 1, 1, d, [a |-> {}, b |-> {}])
    IN  [A |-> sorted_numbers(found.a), B |-> sorted_numbers(found.b)]

\* The residues of the two chains: some near the other chain by their second
\* atom only, some numbered alike with different insertion codes.
ResiduesA ==
    { Residue(1, " ", <<<<0, 0, 0>>>>),
      Residue(2, " ", <<<<0, 0, 9>>>>),
      Residue(3, " ", <<<<20, 0, 0>>, <<0, 2, 2>>>>),
      Residue(3, "A", <<<<0, 3, 0>>>>) }

ResiduesB ==
    { Residue(1, " ", <<<<40, 40, 40>>>>),
      Residue(2, " ", <<<<0, 0, 50>>, <<0, 0, 3>>>>),
      Residue(5, " ", <<<<30, 0, 0>>, <<3, 4, 12>>>>),
      Residue(5, "A", <<<<0, 7, 0>>>>) }

\* The chains of up to MaxResidues residues, in any file order.
Chains(pool) ==
    {c \in SeqsUpTo(pool, MaxResidues) :
        /\ c # <<>>
        /\ \A i, j \in 1..Len(c) : i # j => c[i] # c[j]}

Structures == [A : Chains(ResiduesA), B : Chains(ResiduesB)]

Thresholds == {0, 3, 4, 5, 8, 13}

----------------------------------------------------------------------------
(* run_docking.py, ensure_pdb_end_statement, on the characters of a file.  *)

EndChars == <<"E", "N", "D">>

Newline == <<"\n">>

\* lines[-1] of file.readlines(), without its line end
last_line(text) ==
    LET body  == IF text[Len(text)] = "\n" THEN SubSeq(text, 1, Len(text) - 1)
                 ELSE text
        breaks == {i \in 1..Len(body) : body[i] = "\n"}
        start == IF breaks = {} THEN 1 ELSE Max(breaks) + 1
    IN  SubSeq(body, start, Len(body))

\* The function writing the statement whatever the file ends with.
ensure_always_appends(text) ==
    IF text = <<>> THEN [status |-> "IndexError", text |-> text]
    ELSE [status |-> "ok", text |-> text \o Newline \o EndChars \o Newline]

\* lines 111-114: the file after the call; lines[-1] of no line raises IndexError
ensure_pdb_end_statement(text) ==
    IF text = <<>> THEN [status |-> "IndexError", text |-> text]
    ELSE IF strip(last_line(text)) = EndChars THEN [status |-> "ok", text |-> text]
    ELSE [status |-> "ok", text |-> text \o Newline \o EndChars \o Newline]

AtomRecord == <<"A", "T", "O", "M", " ", "1">>

PdbLinePool == {AtomRecord, EndChars, EndChars \o <<" ">>, <<"T", "E", "R">>, <<>>}

RECURSIVE join_lines(_)
join_lines(ls) ==
    IF ls = <<>> THEN <<>>
    ELSE IF Len(ls) = 1 THEN ls[1]
    ELSE ls[1] \o Newline \o join_lines(Tail(ls))

\* The structure files: up to MaxPdbLines lines, one atom record at least,
\* with or without a line end after the last line.
PdbFiles ==
    LET bodies == {join_lines(ls) :
                      ls \in {l \in SeqsUpTo(PdbLinePool, MaxPdbLines) :
                                 \E i \in 1..Len(l) : l[i] = AtomRecord}}
    IN  bodies \cup {b \o Newline : b \in bodies}

----------------------------------------------------------------------------
(* haddock_analysis.py, parse_cluster_score, and the files the analysis    *)
(* object reads next.  The score file is Missing or a sequence of lines,   *)
(* each the sequence of tokens line.split() gives.                         *)

\* float('inf')
Inf == [kind |-> "inf", milli |-> 0]

\* float(tokens[1]): the tokens written as decimal numbers convert
to_float(tok) == IF tok.kind = "num" THEN Real(tok.milli) ELSE ValueError

\* score <= self.best_score
score_less_or_equal(score, best_score) ==
    best_score.kind = "inf" \/ score.milli <= best_score.milli

\* score < self.best_score, for a finite score
score_less(score, best_score) ==
    best_score.kind = "inf" \/ score.milli < best_score.milli

\* lines 110-125: the loop over the lines, from line i on
RECURSIVE scan_scores(_, _, _)
scan_scores(file, i, cur) ==
    IF i > Len(file) THEN cur
    ELSE IF is_skipped(file[i]) \/ Len(file[i]) < 2 THEN scan_scores(file, i + 1, cur)
    ELSE LET score == to_float(file[i][2])
         IN  IF score = ValueError THEN scan_scores(file, i + 1, cur)
             ELSE IF score_less(score, cur.score)
                  THEN scan_scores(file, i + 1, [cluster |-> file[i][1], score |-> score])
             ELSE scan_scores(file, i + 1, cur)

\* parse_cluster_score on a file that exists: (best_cluster, best_score)
parse_cluster_score(file) == scan_scores(file, 1, [cluster |-> None, score |-> Inf])

\* f"{cluster}_{suffix}"
energy_file_name(cluster, suffix) ==
    [cluster |-> IF cluster.kind = "none" THEN "None" ELSE cluster.s, suffix |-> suffix]

\* The energy files of the analysis directory: those of clust1 and clust2,
\* and the desolvation file only of clust3.
AnalysisFiles ==
    { [name |-> energy_file_name(Word("clust1"), "ener"),
       lines |-> <<EnerLine("s1", -10000, -5000)>>],
      [name |-> energy_file_name(Word("clust1"), "Edesolv"),
       lines |-> <<EdesolvLine("s1", 2000)>>],
      [name |-> energy_file_name(Word("clust2"), "ener"),
       lines |-> <<EnerLine("s2", -8500, -1000), EnerLine("s3", -7000, 3000)>>],
      [name |-> energy_file_name(Word("clust2"), "Edesolv"),
       lines |-> <<EdesolvLine("s3", -1500), EdesolvLine("s2", 2500)>>],
      [name |-> energy_file_name(Word("clust3"), "Edesolv"),
       lines |-> <<EdesolvLine("s2", 2000)>>] }

\* open(filename): the lines of the file, or Missing
read_file(name) ==
    IF \E f \in AnalysisFiles : f.name = name
    THEN (CHOOSE f \in AnalysisFiles : f.name = name).lines
    ELSE Missing

\* The lines the analysis tool may write to the score file.
ScoreLinePool ==
    { <<Word("clust1"), Num(-90000), Num(1200)>>,
      <<Word("clust2"), Num(-120500)>>,
      <<Word("clust3"), Num(-120500), Num(300)>>,
      <<Word("#"), Word("clust1"), Num(-999000)>>,
      <<Word("clust1")>>,
      <<Word("clust2"), Word("n/a")>>,
      <<>> }

ScoreFiles == {Missing} \cup SeqsUpTo(ScoreLinePool, MaxScoreLines)

----------------------------------------------------------------------------
(* The parts of the state a specification does not use stay as they are    *)
(* before the part is called.                                              *)

NotParsed == [status |-> "none", rows |-> <<>>]

NotMerged == [status |-> "none", frame |-> EmptyFrame, path |-> PathNone]

ParseIdle ==
    /\ src_lines = <<>>
    /\ log_text = <<>>
    /\ parse_pc = "idle"
    /\ parse_result = NotParsed

MergeIdle ==
    /\ ener_file = Missing
    /\ edesolv_file = Missing
    /\ merge_pc = "idle"
    /\ merge_result = NotMerged

PipeIdle ==
    /\ environ = AllEnv
    /\ max_clusters = 0
    /\ pc = "idle"
    /\ error = "none"
    /\ cluster_df = <<>>
    /\ cluster_ids = <<>>
    /\ tasks = <<>>
    /\ results = <<>>
    /\ combined_df = EmptyFrame
    /\ writes = {}
    /\ copied = <<>>

EndIdle ==
    /\ pdb_given = <<>>
    /\ pdb_text = <<>>
    /\ end_pc = "idle"
    /\ zdock_read = <<>>

InterfaceIdle ==
    /\ structure = <<>>
    /\ distance = 0
    /\ iface_pc = "idle"
    /\ iface_result = <<>>

ScoreIdle ==
    /\ score_file = Missing
    /\ score_pc = "idle"
    /\ best = [cluster |-> None, score |-> Inf]
    /\ opened = <<>>
    /\ rep_result = NotMerged

----------------------------------------------------------------------------
(* SpecParse: parse_cluster_log applied to every log of Logs.              *)

ParseInit ==
    /\ src_lines \in Logs
    /\ log_text = RenderLog(src_lines)
    /\ parse_pc = "called"
    /\ parse_result = NotParsed
    /\ MergeIdle
    /\ PipeIdle
    /\ EndIdle
    /\ InterfaceIdle
    /\ ScoreIdle

ParseReturn ==
    /\ parse_pc = "called"
    /\ parse_result' = parse_cluster_log(log_text)
    /\ parse_pc' = "returned"
    /\ UNCHANGED <<src_lines, log_text, merge_vars, pipe_vars, end_vars, iface_vars, score_vars>>

ParseNext == ParseReturn

SpecParse == ParseInit /\ [][ParseNext]_vars

----------------------------------------------------------------------------
(* SpecMerge: parse_ener_and_edesolv_files applied to every pair of files. *)

MergeInit ==
    /\ ener_file \in EnerFiles
    /\ edesolv_file \in EdesolvFiles
    /\ merge_pc = "called"
    /\ merge_result = NotMerged
    /\ ParseIdle
    /\ PipeIdle
    /\ EndIdle
    /\ InterfaceIdle
    /\ ScoreIdle

MergeReturn ==
    /\ merge_pc = "called"
    /\ merge_result' = parse_ener_and_edesolv_files(WaterDir, ener_file, edesolv_file)
    /\ merge_pc' = "returned"
    /\ UNCHANGED <<ener_file, edesolv_file, parse_vars, pipe_vars, end_vars, iface_vars, score_vars>>

MergeNext == MergeReturn

SpecMerge == MergeInit /\ [][MergeNext]_vars

----------------------------------------------------------------------------
(* Spec: docking_pipeline from its call to its end, with the tasks of its  *)
(* Pool running side by side.                                              *)

Init ==
    /\ environ \in Environs
    /\ max_clusters \in 0..MaxClustersArg
    /\ pc = "start"
    /\ error = "none"
    /\ cluster_df = <<>>
    /\ cluster_ids = <<>>
    /\ tasks = <<>>
    /\ results = <<>>
    /\ combined_df = EmptyFrame
    /\ writes = {}
    /\ copied = <<>>
    /\ ParseIdle
    /\ MergeIdle
    /\ EndIdle
    /\ InterfaceIdle
    /\ ScoreIdle

Next ==
    \/ CheckEnvironment
    \/ Setup
    \/ RunZdock
    \/ Cluster
    \/ SelectAndSubmit
    \/ \E i \in TaskIdx : TaskStart(i)
    \/ \E i \in TaskIdx : TaskStage(i)
    \/ \E i \in TaskIdx : TaskGenerateInput(i)
    \/ \E i \in TaskIdx : TaskRunHaddock(i)
    \/ \E i \in TaskIdx : TaskAnalyse(i)
    \/ StarmapReturn
    \/ StarmapRaise
    \/ Concat
    \/ Score
    \/ CopyFiles
    \/ WriteCsv

Spec == Init /\ [][Next]_vars

----------------------------------------------------------------------------
(* SpecSelect: the clustering and selection steps of docking_pipeline on   *)
(* every log of Logs and every -c argument, negative ones included         *)
(* (argparse takes any int).                                               *)

SelectInit ==
    /\ src_lines \in Logs
    /\ log_text = RenderLog(src_lines)
    /\ parse_pc = "idle"
    /\ parse_result = NotParsed
    /\ MergeIdle
    /\ environ = AllEnv
    /\ max_clusters \in (0 - MaxClustersArg)..MaxClustersArg
    /\ pc = "cluster"
    /\ error = "none"
    /\ cluster_df = <<>>
    /\ cluster_ids = <<>>
    /\ tasks = <<>>
    /\ results = <<>>
    /\ combined_df = EmptyFrame
    /\ writes = {}
    /\ copied = <<>>
    /\ EndIdle
    /\ InterfaceIdle
    /\ ScoreIdle

ClusterGiven == ClusterOf({src_lines})

SelectNext ==
    \/ ClusterGiven
    \/ SelectAndSubmit

SpecSelect == SelectInit /\ [][SelectNext]_vars




----------------------------------------------------------------------------
(* SpecInterface: get_interface_residues applied to every structure of     *)
(* Structures at every threshold of Thresholds.                            *)

InterfaceInit ==
    /\ structure \in Structures
    /\ distance \in Thresholds
    /\ iface_pc = "called"
    /\ iface_result = <<>>
    /\ ParseIdle
    /\ MergeIdle
    /\ PipeIdle
    /\ EndIdle
    /\ ScoreIdle

InterfaceReturn ==
    /\ iface_pc = "called"
    /\ iface_result' = get_interface_residues(structure, distance)
    /\ iface_pc' = "returned"
    /\ UNCHANGED <<structure, distance, parse_vars, merge_vars, pipe_vars, end_vars,
                   score_vars>>

InterfaceNext == InterfaceReturn

SpecInterface == InterfaceInit /\ [][InterfaceNext]_vars

----------------------------------------------------------------------------
(* SpecEnd: lines 146-158 of docking_pipeline on every pair of structure   *)
(* files: the two calls of ensure_pdb_end_statement, then ZDOCK's mark_sur *)
(* reading the files.                                                      *)

EndInit ==
    /\ pdb_given \in [receptor : PdbFiles, ligand : PdbFiles]
    /\ pdb_text = pdb_given
    /\ end_pc = "copied"
    /\ zdock_read = <<>>
    /\ ParseIdle
    /\ MergeIdle
    /\ PipeIdle
    /\ InterfaceIdle
    /\ ScoreIdle

\* line 146
EnsureReceptor ==
    /\ end_pc = "copied"
    /\ LET r == ensure_pdb_end_statement(pdb_text.receptor)
       IN  IF r.status = "ok"
           THEN /\ pdb_text' = [pdb_text EXCEPT !.receptor = r.text]
                /\ end_pc' = "receptor_done"
           ELSE /\ end_pc' = "raised"
                /\ UNCHANGED pdb_text
    /\ UNCHANGED <<pdb_given, zdock_read, parse_vars, merge_vars, pipe_vars, iface_vars, score_vars>>

\* line 147
EnsureLigand ==
    /\ end_pc = "receptor_done"
    /\ LET r == ensure_pdb_end_statement(pdb_text.ligand)
       IN  IF r.status = "ok"
           THEN /\ pdb_text' = [pdb_text EXCEPT !.ligand = r.text]
                /\ end_pc' = "ligand_done"
           ELSE /\ end_pc' = "raised"
                /\ UNCHANGED pdb_text
    /\ UNCHANGED <<pdb_given, zdock_read, parse_vars, merge_vars, pipe_vars, iface_vars, score_vars>>

\* lines 150-155: mark_sur is run on the two files
MarkSur ==
    /\ end_pc = "ligand_done"
    /\ zdock_read' = pdb_text
    /\ end_pc' = "zdock"
    /\ UNCHANGED <<pdb_given, pdb_text, parse_vars, merge_vars, pipe_vars, iface_vars, score_vars>>

EndNext ==
    \/ EnsureReceptor
    \/ EnsureLigand
    \/ MarkSur

SpecEnd == EndInit /\ [][EndNext]_vars

----------------------------------------------------------------------------
(* SpecTask: run_haddock_docking_for_cluster called, as the Pool calls it, *)
(* with the table of a log and any cluster id, one of the table or not, in *)
(* any environment that docking_pipeline lets through.                     *)

TaskLogs == {l \in PipeLogs : parse_cluster_log(RenderLog(l)).status = "ok"}

TaskClusterIds == {1, 2, 3, 4, 12}

TaskInit ==
    /\ src_lines \in TaskLogs
    /\ log_text = RenderLog(src_lines)
    /\ parse_pc = "idle"
    /\ parse_result = NotParsed
    /\ environ \in {e \in Environs : RequiredEnv \subseteq e}
    /\ max_clusters = 0
    /\ pc = "starmap"
    /\ error = "none"
    /\ cluster_df = parse_cluster_log(log_text).rows
    /\ cluster_ids \in {<<c>> : c \in TaskClusterIds}
    /\ tasks = <<Pending>>
    /\ results = <<>>
    /\ combined_df = EmptyFrame
    /\ writes = {}
    /\ copied = <<>>
    /\ MergeIdle
    /\ EndIdle
    /\ InterfaceIdle
    /\ ScoreIdle

TaskNext ==
    \/ \E i \in TaskIdx : TaskStart(i)
    \/ \E i \in TaskIdx : TaskStage(i)
    \/ \E i \in TaskIdx : TaskGenerateInput(i)
    \/ \E i \in TaskIdx : TaskRunHaddock(i)
    \/ \E i \in TaskIdx : TaskAnalyse(i)

SpecTask == TaskInit /\ [][TaskNext]_vars

----------------------------------------------------------------------------
(* SpecScore: lines 99-100 of run_docking.py on every score file of        *)
(* ScoreFiles: parse_cluster_score, then get_representative_structure.     *)

ScoreInit ==
    /\ score_file \in ScoreFiles
    /\ score_pc = "called"
    /\ best = [cluster |-> None, score |-> Inf]
    /\ opened = <<>>
    /\ rep_result = NotMerged
    /\ ParseIdle
    /\ MergeIdle
    /\ PipeIdle
    /\ EndIdle
    /\ InterfaceIdle

\* haddock_analysis.py lines 101-129; a missing file ends in exit(1)
ParseClusterScore ==
    /\ score_pc = "called"
    /\ IF score_file = Missing
       THEN /\ score_pc' = "exited"
            /\ UNCHANGED best
       ELSE /\ best' = parse_cluster_score(score_file)
            /\ score_pc' = "scored"
    /\ UNCHANGED <<score_file, opened, rep_result, parse_vars, merge_vars, pipe_vars,
                   end_vars, iface_vars>>

\* haddock_analysis.py lines 175-186 and 131-173 with cluster = None: the
\* files of self.best_cluster are opened, _ener first; a ValueError of the
\* first frame leaves the second file unopened
GetRepresentative ==
    /\ score_pc = "scored"
    /\ LET ener_name    == energy_file_name(best.cluster, "ener")
           edesolv_name == energy_file_name(best.cluster, "Edesolv")
           r == get_representative_structure(WaterDir, read_file(ener_name),
                                             read_file(edesolv_name))
       IN  IF parse_file(read_file(ener_name), ener_columns).status # "ok"
           THEN /\ opened' = <<ener_name>>
                /\ rep_result' = [r EXCEPT !.frame = EmptyFrame]
                /\ score_pc' = "raised"
           ELSE /\ opened' = <<ener_name, edesolv_name>>
                /\ rep_result' = r
                /\ score_pc' = IF r.status = "ok" THEN "represented" ELSE "raised"
    /\ UNCHANGED <<score_file, best, parse_vars, merge_vars, pipe_vars, end_vars,
                   iface_vars>>

ScoreNext ==
    \/ ParseClusterScore
    \/ GetRepresentative

SpecScore == ScoreInit /\ [][ScoreNext]_vars

----------------------------------------------------------------------------
(* What a log says, read off its line descriptions (not off its            *)
(* characters): the header lines, and the members each one is followed by. *)

HeaderIdx(ls) == {i \in 1..Len(ls) : ls[i].kind = "header"}

\* The k-th smallest element of a finite set of integers.
RECURSIVE KthOf(_, _)
KthOf(S, k) ==
    LET lo == CHOOSE x \in S : \A y \in S : x <= y
    IN  IF k = 1 THEN lo ELSE KthOf(S \ {lo}, k - 1)

\* The members written from line i on, up to the next header line.
RECURSIVE MembersFrom(_, _)
MembersFrom(ls, i) ==
    IF i > Len(ls) \/ ls[i].kind = "header" THEN <<>>
    ELSE ls[i].members \o MembersFrom(ls, i + 1)

WrittenMembers(ls, h) == ls[h].members \o MembersFrom(ls, h + 1)

\* The number a token of the pool writes.
Written(tok) ==
    CASE tok = T1 -> 1 [] tok = T01 -> 1 [] tok = T2 -> 2 [] tok = T3 -> 3
      [] tok = T5 -> 5 [] tok = T07 -> 7 [] tok = T12 -> 12

Returned == parse_pc = "returned"

ReturnedTable == Returned /\ parse_result.status = "ok"

\* C6: the Members of every parsed record are the header's trailing integers
\* followed by the integers of every later line up to the next header, in
\* order and as written.
C6_MembersInLogOrder ==
    ReturnedTable =>
        \A k \in 1..Len(parse_result.rows) :
            /\ k <= Cardinality(HeaderIdx(src_lines))
            /\ parse_result.rows[k].Members
                   = join_comma(WrittenMembers(src_lines, KthOf(HeaderIdx(src_lines), k)))

\* A header with two inline members and a continuation line with three more
\* has been parsed to one record of five members.
C6_Witness ==
    /\ ReturnedTable
    /\ Len(src_lines) = 2
    /\ src_lines[1].kind = "header" /\ Len(src_lines[1].members) = 2
    /\ src_lines[2].kind = "cont" /\ Len(src_lines[2].members) = 3
    /\ Len(parse_result.rows) = 1
    /\ parse_result.rows[1].Members = join_comma(<<T1, T3, T5, T2, T07>>)

\* C7: parse_cluster_log emits one record per header line, in log order, for
\* every log text (lines before the first header and blank lines add none).
C7_OneRecordPerHeader ==
    Returned =>
        /\ parse_result.status = "ok"
        /\ Len(parse_result.rows) = Cardinality(HeaderIdx(src_lines))
        /\ \A k \in 1..Len(parse_result.rows) :
               parse_result.rows[k].ClusterID
                   = Written(src_lines[KthOf(HeaderIdx(src_lines), k)].id)

\* C8: a log without any header line parses to an empty table, without error.
C8_NoHeaderGivesEmptyTable ==
    (Returned /\ HeaderIdx(src_lines) = {}) =>
        /\ parse_result.status = "ok"
        /\ parse_result.rows = <<>>

\* C9: an omitted distance metric is NaN in the record, never zero, and the
\* cluster id, structure count and medoid id are the integers written.
C9_OmittedMetricIsNaN ==
    ReturnedTable =>
        \A k \in 1..Len(parse_result.rows) :
            LET h == src_lines[KthOf(HeaderIdx(src_lines), k)]
                r == parse_result.rows[k]
            IN  /\ h.rmsd = <<>> => r.RMSD = NaN
                /\ h.mrmsd = <<>> => r.MiddleRMSD = NaN
                /\ r.ClusterID = Written(h.id)
                /\ r.NStructures = Written(h.n)
                /\ r.MiddleStructure = Written(h.mid)

\* A record parsed from a header that omits the cluster metric and gives the
\* medoid metric, after one that gives both.
C9_Witness ==
    /\ ReturnedTable
    /\ Len(parse_result.rows) = 2
    /\ src_lines[1].kind = "header" /\ src_lines[1].rmsd # <<>>
    /\ src_lines[2].kind = "header" /\ src_lines[2].rmsd = <<>>
    /\ src_lines[2].mrmsd # <<>>
    /\ parse_result.rows[2].RMSD = NaN
    /\ parse_result.rows[2].MiddleRMSD = Real(196)
    /\ parse_result.rows[1].RMSD = Real(244)

----------------------------------------------------------------------------
(* What two energy files say, read off their lines.                        *)

DataLines(file) ==
    IF file = Missing THEN <<>>
    ELSE SelectSeq(file, LAMBDA l : ~(l[1].kind = "str" /\ l[1].s \in HashWords))

IdsOf(file) == {DataLines(file)[i][1].s : i \in 1..Len(DataLines(file))}

TermOf(line, i) ==
    IF i <= Len(line) /\ line[i].kind = "num" THEN Real(line[i].milli) ELSE NaN

RECURSIVE Repeat(_, _)
Repeat(x, n) == IF n = 0 THEN <<>> ELSE <<x>> \o Repeat(x, n - 1)

\* The identifiers of the interaction-energy rows, in their order, each as
\* often as the desolvation table has a row for it.
RECURSIVE JoinedIds(_, _)
JoinedIds(el, dl) ==
    IF el = <<>> THEN <<>>
    ELSE Repeat(el[1][1].s, Cardinality({j \in 1..Len(dl) : dl[j][1].s = el[1][1].s}))
         \o JoinedIds(Tail(el), dl)

MergedIds == [k \in 1..Len(merge_result.frame.rows) |->
                 merge_result.frame.rows[k]["#struc"].s]

Merged == merge_pc = "returned" /\ merge_result.status = "ok"

\* C10: the merged table holds exactly the structure identifiers of both
\* tables, every row with the terms of both sources, in the order of the
\* interaction-energy table; an identifier of one table only is dropped
\* without an error.
C10_InnerJoinInEnerOrder ==
    Merged =>
        LET el == DataLines(ener_file)
            dl == DataLines(edesolv_file)
            m  == merge_result.frame.rows
        IN  /\ MergedIds = JoinedIds(el, dl)
            /\ {MergedIds[k] : k \in 1..Len(m)} = IdsOf(ener_file) \cap IdsOf(edesolv_file)
            /\ \A k \in 1..Len(m) :
                   /\ \E i \in 1..Len(el) :
                          /\ el[i][1].s = MergedIds[k]
                          /\ m[k]["Evdw"] = TermOf(el[i], 5)
                          /\ m[k]["Eelec"] = TermOf(el[i], 6)
                   /\ \E j \in 1..Len(dl) :
                          /\ dl[j][1].s = MergedIds[k]
                          /\ m[k]["Edesolv"] = TermOf(dl[j], 2)

\* Interaction-energy rows for s1, s2, s3 and desolvation rows for s2, s3, s4
\* have been merged to the rows of s2 and s3.
C10_Witness ==
    /\ Merged
    /\ IdsOf(ener_file) = {"s1", "s2", "s3"}
    /\ IdsOf(edesolv_file) = {"s2", "s3", "s4"}
    /\ MergedIds = <<"s2", "s3">>
    /\ merge_result.path = WaterDir \o <<[base |-> "s2", arg |-> <<>>]>>
    /\ merge_result.frame.rows[1]["Edesolv"] = Real(2000)
    /\ merge_result.frame.rows[1]["Evdw"] = Real(-8500)

----------------------------------------------------------------------------
(* Claims about docking_pipeline.                                          *)

\* The header lines whose id no earlier header line writes.
FirstHeaders(ls) ==
    {h \in HeaderIdx(ls) :
        \A g \in HeaderIdx(ls) : g < h => Written(ls[g].id) # Written(ls[h].id)}

\* The distinct cluster ids of a log, in the order they appear in it.
DistinctIds(ls) ==
    [k \in 1..Cardinality(FirstHeaders(ls)) |-> Written(ls[KthOf(FirstHeaders(ls), k)].id)]

IsPrefix(a, b) == Len(a) <= Len(b) /\ a = SubSeq(b, 1, Len(a))

Handed == pc = "starmap"

Failed(i) == tasks[i].pc \in {"raised", "exited"}

Succeeded(i) == tasks[i].pc = "returned" /\ ~frame_empty(tasks[i].ret.frame)

\* The pipeline is past the parallel phase: starmap has returned or raised.
PastStarmap == tasks # <<>> /\ pc # "starmap"

\* C1: when exactly one of N >= 2 tasks fails and the others succeed, the run
\* still has the others' N-1 results and does not crash.
C1_OneFailureIsIsolated ==
    (/\ PastStarmap
     /\ Cardinality({i \in TaskIdx : Failed(i)}) = 1
     /\ Cardinality({i \in TaskIdx : Succeeded(i)}) = Len(tasks) - 1
     /\ Len(tasks) >= 2)
    => /\ pc # "raised"
       /\ Len(results) = Len(tasks)
       /\ \A i \in TaskIdx : Succeeded(i) => results[i] = tasks[i].ret

\* C2: once the parallel phase is over, the results collected correspond one
\* to one to the selected cluster ids.
C2_ResultsMatchIds ==
    PastStarmap =>
        /\ Len(results) = Len(cluster_ids)
        /\ \A i \in 1..Len(results) :
               results[i].path # PathNone =>
                   SubSeq(results[i].path, 1, 2) = TaskDir(i)

AggregationPhases == {"concat", "score", "copy", "csv", "done"}

\* The results area: copied_files, the directory above the docking directory,
\* and combined_results.csv in it.
InResultsArea(path) ==
    \/ Len(path) = 1 /\ path # DockingDir
    \/ Len(path) >= 2 /\ SubSeq(path, 1, 2) = DockingDir \o <<Name("copied_files")>>

\* C3: aggregation starts only when every submitted task has returned; the
\* results area is written by docking_pipeline itself only, and only while no
\* task is pending or running.
C3_AggregationAfterBarrier ==
    /\ pc \in AggregationPhases => \A i \in TaskIdx : tasks[i].pc = "returned"
    /\ \A w \in writes : InResultsArea(w.path) => w.by = 0 /\ w.busy = 0

\* The run ended after two tasks or more, with a representative staged in
\* copied_files and the table written.
C3_Witness ==
    /\ pc = "done"
    /\ Len(tasks) >= 2
    /\ \E w \in writes : Len(w.path) = 3 /\ w.path[2] = Name("copied_files")
    /\ \E w \in writes : w.path = <<Name("combined_results.csv")>>

\* The directory of a cluster, spelled out.
PosDir(c) ==
    CASE c = 1 -> [base |-> "Pos", arg |-> <<"1">>]
      [] c = 2 -> [base |-> "Pos", arg |-> <<"2">>]
      [] c = 3 -> [base |-> "Pos", arg |-> <<"3">>]
      [] c = 12 -> [base |-> "Pos", arg |-> <<"1", "2">>]

\* C4: everything a task writes lies in Pos<clusterId> of its own cluster, and
\* no two tasks write the same path.
C4_TaskWritesDisjoint ==
    /\ \A w \in writes :
           w.by # 0 =>
               /\ Len(w.path) >= 2
               /\ w.path[1] = Name("docking")
               /\ w.path[2] = PosDir(cluster_ids[w.by])
    /\ \A w1 \in {w \in writes : w.by # 0} :
           \A w2 \in writes : w1.by # w2.by => w1.path # w2.path

\* Two tasks of different clusters are running at once and both have written
\* their input files.
C4_Witness ==
    \E i, j \in TaskIdx :
        /\ i # j
        /\ tasks[i].pc \in Running /\ tasks[j].pc \in Running
        /\ \E w \in writes : w.by = i /\ basename(w.path) = Name("run.param")
        /\ \E w \in writes : w.by = j /\ basename(w.path) = Name("run.param")

----------------------------------------------------------------------------
(* Claims about the representative, the score and the aggregation.         *)

\* C11: a task that comes back has a representative, the first row of the
\* merged table, with the path of that row's structure; with an empty merge
\* the task fails instead of coming back.
C11_RepresentativeOrError ==
    \A i \in TaskIdx :
        tasks[i].pc = "returned" =>
            /\ ~frame_empty(tasks[i].ret.frame)
            /\ Len(tasks[i].ret.frame.rows) = 1
            /\ tasks[i].ret.path
                   = analysis_dir(cluster_ids[i])
                       \o <<Name(tasks[i].ret.frame.rows[1]["#struc"].s)>>

\* The results that carry a representative, in the order of the tasks.
Contributing == SelectSeq(results, LAMBDA r : ~frame_empty(r.frame))

Scored == pc \in {"copy", "csv", "done"}

\* C12: every row of the final table is the representative of one task, in
\* the order of the tasks, and its score is the sum of that representative's
\* own Evdw, Eelec and Edesolv.
C12_ScoreIsRowSum ==
    Scored =>
        /\ Len(combined_df.rows) = Len(Contributing)
        /\ \A k \in 1..Len(combined_df.rows) :
               LET own == Contributing[k].frame.rows[1]
               IN  /\ combined_df.rows[k]["#struc"] = Contributing[k].path
                   /\ combined_df.rows[k]["score"]
                          = Real(own["Evdw"].milli + own["Eelec"].milli
                                    + own["Edesolv"].milli)

\* The final table has the row of -10, -5 and 2 with score -13 and, from
\* another cluster, the row of -8.5, -1 and 2.5 with score -7.
C12_Witness ==
    /\ pc = "done"
    /\ \E k, l \in 1..Len(combined_df.rows) :
           /\ k # l
           /\ combined_df.rows[k]["Evdw"] = Real(-10000)
           /\ combined_df.rows[k]["Eelec"] = Real(-5000)
           /\ combined_df.rows[k]["Edesolv"] = Real(2000)
           /\ combined_df.rows[k]["score"] = Real(-13000)
           /\ combined_df.rows[l]["score"] = Real(-7000)

\* docking_pipeline has ended, one way or the other, after its parallel phase.
EndedAfterTasks == tasks # <<>> /\ pc \in {"raised", "done"}

\* C13: when the parallel phase is over, the run ends with a table of one row
\* per successful task if there is one, and with an empty-result error if
\* there is none.
C13_SurvivorsOrEmptyResult ==
    EndedAfterTasks =>
        IF \E i \in TaskIdx : Succeeded(i)
        THEN /\ pc = "done"
             /\ Len(combined_df.rows) = Cardinality({i \in TaskIdx : Succeeded(i)})
        ELSE /\ pc = "raised"
             /\ error = "EmptyResultError"

\* C18: with a tool location that is not configured, docking_pipeline writes
\* nothing and starts no task, and ends with EnvironmentError.
C18_EnvironmentCheckedAtStart ==
    ~(AllEnv \subseteq environ) =>
        /\ writes = {}
        /\ tasks = <<>>
        /\ pc \in {"start", "raised"}
        /\ pc = "raised" => error = "EnvironmentError"

Staged == pc \in {"csv", "done"}

----------------------------------------------------------------------------
(* Claims about get_interface_residues.                                    *)

Range(q) == {q[k] : k \in 1..Len(q)}

\* Some atom of residue r is no farther than d from some atom of a residue
\* of the other chain.
NearChain(r, other, d) ==
    \E i \in 1..Len(r.atoms) : \E q \in Range(other) : \E j \in 1..Len(q.atoms) :
        LET a == r.atoms[i]
            b == q.atoms[j]
        IN  (a[1] - b[1]) * (a[1] - b[1]) + (a[2] - b[2]) * (a[2] - b[2])
                + (a[3] - b[3]) * (a[3] - b[3]) <= d * d

\* The numbers of the residues of chain `own` that are near the other chain.
NearNumbers(own, other, d) == {r.resseq : r \in {x \in Range(own) : NearChain(x, other, d)}}

InterfaceReturned == iface_pc = "returned"

\* C14: a residue number is in the result of a chain exactly when some atom
\* of a residue of that number is within the threshold of some atom of the
\* other chain.
C14_InterfaceIffNear ==
    InterfaceReturned =>
        /\ Range(iface_result.A) = NearNumbers(structure.A, structure.B, distance)
        /\ Range(iface_result.B) = NearNumbers(structure.B, structure.A, distance)

\* At threshold 4, residue 3 of chain A, near by its second atom only and
\* read after residue 2, and residue 2 of chain B, near by its second atom
\* only, are the interface.
C14_Witness ==
    /\ InterfaceReturned
    /\ distance = 4
    /\ structure.A = <<Residue(2, " ", <<<<0, 0, 9>>>>),
                       Residue(3, " ", <<<<20, 0, 0>>, <<0, 2, 2>>>>)>>
    /\ Len(structure.B) = 2
    /\ iface_result = [A |-> <<3>>, B |-> <<2>>]

StrictlyIncreasing(q) == \A k \in 1..(Len(q) - 1) : q[k] < q[k + 1]

\* C15: both sequences returned are strictly increasing.
C15_StrictlyIncreasing ==
    InterfaceReturned =>
        /\ StrictlyIncreasing(iface_result.A)
        /\ StrictlyIncreasing(iface_result.B)

\* C16: what is returned for a chain at a threshold is contained in what is
\* returned for it at any larger threshold.
C16_MonotoneInThreshold ==
    InterfaceReturned =>
        \A d2 \in Thresholds :
            distance < d2 =>
                /\ Range(iface_result.A) \subseteq Range(get_interface_residues(structure, d2).A)
                /\ Range(iface_result.B) \subseteq Range(get_interface_residues(structure, d2).B)

\* A structure with an interface at threshold 4 that is larger at threshold 8.
C16_Witness ==
    /\ InterfaceReturned
    /\ distance = 4
    /\ iface_result.A # <<>>
    /\ Range(iface_result.A) # Range(get_interface_residues(structure, 8).A)
    /\ Range(iface_result.B) # Range(get_interface_residues(structure, 8).B)

----------------------------------------------------------------------------
(* Claims about the per-cluster task's pose.                               *)

WrittenIds == {Written(src_lines[h].id) : h \in HeaderIdx(src_lines)}

\* The first header line of cluster c.
FirstHeaderOf(c) ==
    CHOOSE h \in FirstHeaders(src_lines) : Written(src_lines[h].id) = c

\* complex.<m>.pdb for the first member m written for cluster c.
PoseOf(c) ==
    LET ms == WrittenMembers(src_lines, FirstHeaderOf(c))
    IN  [base |-> "complex.pdb", arg |-> IF ms = <<>> THEN <<>> ELSE ms[1]]

\* C17: the pose of a task is complex.<m>.pdb for the first member m of its
\* cluster in log order; for a cluster id that is not in the table the task
\* fails at the lookup, having written nothing.
C17_FirstMemberOrNotFound ==
    \A i \in TaskIdx :
        IF cluster_ids[i] \in WrittenIds
        THEN tasks[i].pc # "pending" => tasks[i].pose = PoseOf(cluster_ids[i])
        ELSE /\ tasks[i].pc \in {"pending", "raised"}
             /\ tasks[i].pc = "raised" => tasks[i].exc = "IndexError"
             /\ \A w \in writes : w.by # i

\* The task of cluster 4, which the table of three clusters does not have,
\* has failed at the lookup.
C17_Witness ==
    /\ cluster_ids = <<4>>
    /\ Len(cluster_df) = 3
    /\ tasks[1].pc = "raised"
    /\ tasks[1].exc = "IndexError"
    /\ writes = {}

----------------------------------------------------------------------------
(* Claims about ensure_pdb_end_statement.                                  *)

\* The text, less one line end at its end, ends with a line that reads END
\* between blanks.
EndsWithEndLine(text) ==
    LET body == IF text # <<>> /\ text[Len(text)] = "\n"
                THEN SubSeq(text, 1, Len(text) - 1) ELSE text
    IN  \E i \in 1..(Len(body) - 2) :
            /\ body[i] = "E" /\ body[i + 1] = "N" /\ body[i + 2] = "D"
            /\ \A j \in (i + 3)..Len(body) : body[j] \in {" ", "\t"}
            /\ \A j \in 1..(i - 1) :
                   (\A k \in j..(i - 1) : body[k] # "\n") => body[j] \in {" ", "\t"}

Ensured(f) ==
    IF f = "receptor" THEN end_pc \in {"receptor_done", "ligand_done", "zdock"}
    ELSE end_pc \in {"ligand_done", "zdock"}

\* C19: after ensure_pdb_end_statement a structure file keeps what it held
\* and ends with an END line; the statement is appended only to a file that
\* did not end with one, a second call changes nothing, and both files have
\* been through it when mark_sur reads them.
C19_EndStatementEnsured ==
    /\ end_pc # "raised"
    /\ \A f \in {"receptor", "ligand"} :
           IF Ensured(f)
           THEN /\ IsPrefix(pdb_given[f], pdb_text[f])
                /\ EndsWithEndLine(pdb_text[f])
                /\ EndsWithEndLine(pdb_given[f]) => pdb_text[f] = pdb_given[f]
                /\ ~EndsWithEndLine(pdb_given[f]) =>
                       pdb_text[f] = pdb_given[f] \o <<"\n", "E", "N", "D", "\n">>
                /\ ensure_pdb_end_statement(pdb_text[f])
                       = [status |-> "ok", text |-> pdb_text[f]]
           ELSE end_pc # "idle" => pdb_text[f] = pdb_given[f]
    /\ end_pc = "zdock" =>
           /\ EndsWithEndLine(zdock_read.receptor)
           /\ EndsWithEndLine(zdock_read.ligand)

\* mark_sur reads a receptor that was given as one atom record without line
\* end and now has its END line, and a ligand that was given with an END
\* line followed by a blank and is as it was.
C19_Witness ==
    /\ end_pc = "zdock"
    /\ pdb_given.receptor = <<"A", "T", "O", "M", " ", "1">>
    /\ zdock_read.receptor
           = <<"A", "T", "O", "M", " ", "1", "\n", "E", "N", "D", "\n">>
    /\ pdb_given.ligand
           = <<"A", "T", "O", "M", " ", "1", "\n", "E", "N", "D", " ", "\n">>
    /\ zdock_read.ligand = pdb_given.ligand

----------------------------------------------------------------------------
(* Claims about parse_cluster_score.                                       *)

\* The lines of the score file that count: not blank, not a comment, of two
\* tokens or more, the second one a number.
Qualifying(file) ==
    {i \in 1..Len(file) :
        /\ file[i] # <<>>
        /\ ~(file[i][1].kind = "str" /\ file[i][1].s \in HashWords)
        /\ Len(file[i]) >= 2
        /\ file[i][2].kind = "num"}

\* The first of the qualifying lines with the least score.
BestLine(file) ==
    CHOOSE i \in Qualifying(file) :
        /\ \A j \in Qualifying(file) : file[i][2].milli <= file[j][2].milli
        /\ \A j \in Qualifying(file) : j < i => file[j][2].milli > file[i][2].milli

ScoreParsed == score_pc \in {"scored", "represented", "raised"}

====
